---- MODULE Spec2Model ----
(***************************************************************************)
(* Model of bdi_api: the s4 router (download_data, prepare_data, against   *)
(* a remote HTTP source, an S3 bucket and the local disk) and the s5       *)
(* router (init_database, seed_database and five query endpoints against   *)
(* a PostgreSQL database).                                                 *)
(*                                                                         *)
(* Strings that the code builds or parses are sequences of tokens: "/" is  *)
(* the path separator and every other token is a run of characters without *)
(* a separator.                                                            *)
(***************************************************************************)
EXTENDS Integers, Sequences, FiniteSets, TLC

VARIABLES
    \* ---- s4: external state
    bucket,        \* keys of the objects stored in the S3 bucket
    cwdFiles,      \* files in the process's working directory
    rawDirFiles,   \* local paths written by s3.download_file
    \* ---- s4: download_data call
    dlPc,          \* "idle" | "loop" | "done"
    file_limit,    \* query parameter
    downloaded,    \* local variable downloaded
    seconds,       \* local variable seconds
    attempts,      \* history: <<[offset, outcome]>> one per loop iteration
    uploads,       \* history: keys of the upload_file calls that completed
    \* ---- s4: prepare_data call
    prepPc,        \* "idle" | "returned" | "raised"
    prepResult,    \* returned string
    listing,       \* the list_objects_v2 response: [has_contents, keys]
    bucketAtList,  \* history: the bucket when list_objects_v2 answered
    copies,        \* history: <<[key, local_path]>> completed download_file calls
    \* ---- s5: database and connections
    tables,        \* names of the tables that exist
    department,    \* department ids
    employee,      \* rows [id, department_id, salary]
    project,       \* project ids
    employee_project, \* rows <<employee_id, project_id>>
    salary_history,   \* rows [employee_id, change_date]
    openConns,     \* connections opened by a handler and not closed
    lastCall       \* the last finished s5 request

s4vars == <<bucket, cwdFiles, rawDirFiles, dlPc, file_limit, downloaded,
            seconds, attempts, uploads, prepPc, prepResult, listing,
            bucketAtList, copies>>
s5vars == <<tables, department, employee, project, employee_project,
            salary_history, openConns, lastCall>>
vars == <<bucket, cwdFiles, rawDirFiles, dlPc, file_limit, downloaded,
          seconds, attempts, uploads, prepPc, prepResult, listing,
          bucketAtList, copies,
          tables, department, employee, project, employee_project,
          salary_history, openConns, lastCall>>

\* ------------------------------------------------------------------ bounds
\* largest file_limit passed to download_data
MaxLimit == 2
\* the model stops probing at this many loop iterations (the code has no cap)
MaxAttempts == 3
\* list_objects_v2 returns at most 1000 keys per response; the model scales
\* that page size down
ListMaxKeys == 2

\* ------------------------------------------------------------- s4 helpers
Min(a, b) == IF a < b THEN a ELSE b

DigitStr == <<"0", "1", "2", "3", "4", "5", "6", "7", "8", "9">>

RECURSIVE Digits(_)
Digits(n) == IF n < 10 THEN <<DigitStr[n + 1]>>
             ELSE Digits(n \div 10) \o <<DigitStr[(n % 10) + 1]>>

\* f"{n:02d}": decimal digits, left-padded with "0" to at least two
Fmt02d(n) == IF n < 10 THEN <<"0">> \o Digits(n) ELSE Digits(n)

\* filename = f"{hh:02d}{mm:02d}{ss:02d}Z.json.gz"
Filename(secs) ==
    Fmt02d(secs \div 3600) \o Fmt02d((secs % 3600) \div 60)
        \o Fmt02d(secs % 60) \o <<"Z.json.gz">>

\* s3_prefix_path = "raw/day=20231101/"
S3Prefix == <<"raw", "/", "day=20231101", "/">>

\* Key=s3_prefix_path + filename
UploadKey(filename) == S3Prefix \o filename

\* the step of the offset counter: seconds += 5
OffsetStep == 5

\* os.path.join(settings.raw_dir, "day=20231101")
LocalRawDir == <<"raw_dir", "/", "day=20231101">>

\* the outcomes of one loop iteration of download_data
Outcomes == {"fetch_exc", "non200", "write_exc", "upload_exc", "unlink_exc", "ok"}

\* outcomes in which requests.get returned a response with status_code 200
Got200 == {"write_exc", "upload_exc", "unlink_exc", "ok"}

\* outcomes in which control reached the except clause
Raised == {"fetch_exc", "write_exc", "upload_exc", "unlink_exc"}

\* ------------------------------------------------------ s4: download_data
\* objects present in the bucket before the service runs: one under another
\* prefix, two under the prefix whose keys end in the same filename
OtherKey == <<"other", "/", "x">>
FlatKey == S3Prefix \o <<"x">>
NestedKey == S3Prefix \o <<"sub", "/", "x">>
InitBuckets == { {}, {OtherKey}, {FlatKey, NestedKey} }

FileLimits == (0 - 1) .. MaxLimit

\* entry of download_data: downloaded = 0, seconds = 0
DownloadCall(n) ==
    /\ dlPc = "idle"
    /\ dlPc' = "loop"
    /\ file_limit' = n
    /\ downloaded' = 0
    /\ seconds' = 0
    /\ attempts' = <<>>
    /\ uploads' = <<>>
    /\ UNCHANGED <<bucket, cwdFiles, rawDirFiles, prepPc, prepResult, listing,
                   bucketAtList, copies>>

\* with open(filename, "wb") as f: f.write(r.content)
\* (a write that raises has already created the file)
AfterWrite(files, filename, o) ==
    IF o \in Got200 THEN files \cup {filename} ELSE files

\* s3.upload_file(Filename=filename, Bucket=s3_bucket, Key=s3_prefix_path + filename)
AfterUpload(objs, filename, o) ==
    IF o \in {"unlink_exc", "ok"} THEN objs \cup {UploadKey(filename)} ELSE objs

\* Path(filename).unlink(), reached only when upload_file returned
AfterUnlink(files, filename, o) ==
    IF o = "ok" THEN files \ {filename} ELSE files

\* downloaded += 1, reached only when unlink returned
CountMutCountsNon200(d, o) == IF o \in {"ok", "non200"} THEN d + 1 ELSE d
Count(d, o) == IF o = "ok" THEN d + 1 ELSE d

\* seconds += 5 on the non-200 path (line 80) and after try/except (line 103)
NextOffsetMutSkipOnError(s, o) == IF o \in Raised THEN s ELSE s + OffsetStep
NextOffset(s, o) == s + OffsetStep

\* the loop condition: while downloaded < file_limit
LoopCondMutLeq(d, n) == d <= n
LoopCond(d, n) == d < n

\* one iteration of the while loop with outcome o
Attempt(o) ==
    /\ dlPc = "loop"
    /\ LoopCond(downloaded, file_limit)
    /\ Len(attempts) < MaxAttempts
    /\ LET filename == Filename(seconds) IN
        /\ cwdFiles' = AfterUnlink(AfterWrite(cwdFiles, filename, o), filename, o)
        /\ bucket' = AfterUpload(bucket, filename, o)
        /\ uploads' = IF o \in {"unlink_exc", "ok"}
                        THEN Append(uploads, UploadKey(filename)) ELSE uploads
        /\ attempts' = Append(attempts, [offset |-> seconds, outcome |-> o])
    /\ downloaded' = Count(downloaded, o)
    /\ seconds' = NextOffset(seconds, o)
    /\ UNCHANGED <<dlPc, file_limit, rawDirFiles, prepPc, prepResult, listing,
                   bucketAtList, copies>>

AttemptOk == Attempt("ok")
AttemptFails == \E o \in Outcomes \ {"ok"} : Attempt(o)

\* the loop condition is false: return "OK"
DownloadReturn ==
    /\ dlPc = "loop"
    /\ ~LoopCond(downloaded, file_limit)
    /\ dlPc' = "done"
    /\ UNCHANGED <<bucket, cwdFiles, rawDirFiles, file_limit, downloaded, seconds,
                   attempts, uploads, prepPc, prepResult, listing, bucketAtList,
                   copies>>

\* ------------------------------------------------------- s4: prepare_data
\* S3 lists keys in ascending byte order; the tokens in that order
TokenOrder == <<"/", "0", "1", "2", "3", "4", "5", "6", "7", "8", "9",
                "Z.json.gz", "day=20231101", "other", "raw", "raw_dir", "sub", "x">>

TokenRank(t) == CHOOSE i \in 1..Len(TokenOrder) : TokenOrder[i] = t

RECURSIVE KeyLess(_, _)
KeyLess(a, b) ==
    IF a = <<>> THEN b # <<>>
    ELSE IF b = <<>> THEN FALSE
    ELSE IF Head(a) = Head(b) THEN KeyLess(Tail(a), Tail(b))
    ELSE TokenRank(Head(a)) < TokenRank(Head(b))

RECURSIVE SortKeys(_)
SortKeys(S) ==
    IF S = {} THEN <<>>
    ELSE LET m == CHOOSE k \in S : \A j \in S \ {k} : KeyLess(k, j)
         IN <<m>> \o SortKeys(S \ {m})

StartsWith(key, prefix) ==
    /\ Len(key) >= Len(prefix)
    /\ SubSeq(key, 1, Len(prefix)) = prefix

Take(seq, n) == SubSeq(seq, 1, Min(n, Len(seq)))

\* s3.list_objects_v2(Bucket=bucket, Prefix=prefix): one response, holding the
\* first keys under the prefix up to the page size; the code sends no
\* ContinuationToken for the rest
ListObjectsV2(objs, prefix) ==
    Take(SortKeys({k \in objs : StartsWith(k, prefix)}), ListMaxKeys)

\* key.split("/")[-1]
RECURSIVE LastSegment(_)
LastSegmentMutWholeKey(key) == key
LastSegment(key) ==
    IF key = <<>> THEN <<>>
    ELSE IF key[Len(key)] = "/" THEN <<>>
    ELSE LastSegment(SubSeq(key, 1, Len(key) - 1)) \o <<key[Len(key)]>>

\* os.path.join(local_raw_dir, filename)
LocalPath(filename) == LocalRawDir \o <<"/">> \o filename

\* the download_file calls of the for loop over response["Contents"]
CopyCalls(contents) ==
    [i \in 1..Len(contents) |->
        [key |-> contents[i], local_path |-> LocalPath(LastSegment(contents[i]))]]

\* the whole handler; failAt = 0: no download_file call raises, failAt = j:
\* the j-th call raises and the error leaves the handler
prepare_data ==
    /\ prepPc = "idle"
    /\ bucketAtList' = bucket
    /\ LET contents == ListObjectsV2(bucket, S3Prefix) IN
        IF contents = <<>>
        THEN /\ prepPc' = "returned"
             /\ prepResult' = "No files in bucket"
             /\ listing' = [has_contents |-> FALSE, keys |-> <<>>]
             /\ copies' = <<>>
             /\ UNCHANGED rawDirFiles
        ELSE \E failAt \in 0..Len(contents) :
             LET calls == CopyCalls(contents)
                 done == IF failAt = 0 THEN calls ELSE SubSeq(calls, 1, failAt - 1)
             IN /\ prepPc' = IF failAt = 0 THEN "returned" ELSE "raised"
                /\ prepResult' = IF failAt = 0 THEN "OK" ELSE "none"
                /\ listing' = [has_contents |-> TRUE, keys |-> contents]
                /\ copies' = done
                /\ rawDirFiles' = rawDirFiles \cup {done[i].local_path : i \in 1..Len(done)}
    /\ UNCHANGED <<bucket, cwdFiles, dlPc, file_limit, downloaded, seconds,
                   attempts, uploads>>

\* ----------------------------------------------------------- s4: the system
InitS4Part ==
    /\ bucket \in InitBuckets
    /\ cwdFiles = {}
    /\ rawDirFiles = {}
    /\ dlPc = "idle"
    /\ file_limit = 0
    /\ downloaded = 0
    /\ seconds = 0
    /\ attempts = <<>>
    /\ uploads = <<>>
    /\ prepPc = "idle"
    /\ prepResult = "none"
    /\ listing = [has_contents |-> FALSE, keys |-> <<>>]
    /\ bucketAtList = {}
    /\ copies = <<>>

InitS5Idle ==
    /\ tables = {}
    /\ department = {}
    /\ employee = {}
    /\ project = {}
    /\ employee_project = {}
    /\ salary_history = {}
    /\ openConns = 0
    /\ lastCall = [op |-> "none"]

InitS4 == InitS4Part /\ InitS5Idle

S4Call == (\E n \in FileLimits : DownloadCall(n)) /\ UNCHANGED s5vars
S4AttemptOk == AttemptOk /\ UNCHANGED s5vars
S4AttemptFails == AttemptFails /\ UNCHANGED s5vars
S4Return == DownloadReturn /\ UNCHANGED s5vars
S4Prepare == prepare_data /\ UNCHANGED s5vars

NextS4 ==
    \/ S4Call
    \/ S4AttemptOk
    \/ S4AttemptFails
    \/ S4Return
    \/ S4Prepare

SpecS4 == InitS4 /\ [][NextS4]_vars

\* the handler runs to its return statement once the loop condition is false,
\* and the remote source keeps answering some attempt with a file that is
\* stored without error
LiveSpecS4 == SpecS4 /\ WF_vars(S4Return) /\ WF_vars(S4AttemptOk)

\* ---------------------------------------------------------- s5: database
\* bounds of the database contents the model starts from
MaxEmp == 2
\* bounds of the query parameters
MaxPage == 3
MaxPerPage == 2
\* connections the database server accepts at once
MaxConnections == 2

DeptIds == {1, 2}
ProjIds == {1, 2}
EmpIds == 1..MaxEmp

\* the five tables named by init_database and seed_database
FiveTables == {"salary_history", "employee_project", "employee", "project", "department"}

\* hr_schema.sql, from the specification's data model: the tables it creates
\* and, per table, the tables whose rows reference it
SchemaTables == FiveTables
Children(t) ==
    CASE t = "department" -> {"employee"}
      [] t = "employee" -> {"employee_project", "salary_history"}
      [] t = "project" -> {"employee_project"}
      [] OTHER -> {}

Salary(id) == 1000 * id
EmpRow(id, dept) == [id |-> id, department_id |-> dept, salary |-> Salary(id)]

\* hr_seed_data.sql, from the specification: fixed sample rows
SeedDB ==
    [department |-> {1, 2, 3},
     employee |-> {EmpRow(1, 1), EmpRow(2, 1), EmpRow(3, 2), EmpRow(4, 2), EmpRow(5, 2)},
     project |-> {1, 2},
     employee_project |-> {<<1, 1>>, <<1, 2>>, <<2, 1>>, <<3, 2>>},
     salary_history |-> {[employee_id |-> 1, change_date |-> 1],
                         [employee_id |-> 1, change_date |-> 2],
                         [employee_id |-> 3, change_date |-> 1]}]

EmptyDB ==
    [department |-> {}, employee |-> {}, project |-> {},
     employee_project |-> {}, salary_history |-> {}]

DbNow ==
    [department |-> department, employee |-> employee, project |-> project,
     employee_project |-> employee_project, salary_history |-> salary_history]

SetDb(db) ==
    /\ department' = db.department
    /\ employee' = db.employee
    /\ project' = db.project
    /\ employee_project' = db.employee_project
    /\ salary_history' = db.salary_history

\* psycopg2.connect(settings.db_url): refused when the server is full
CanConnect == openConns < MaxConnections

\* the handler ends by an exception: the statements after the failing one,
\* cur.close() and conn.close() among them, are not executed
Raises(op, a, b, connected) ==
    /\ lastCall' = [op |-> op, a |-> a, b |-> b, outcome |-> "raised", result |-> "none"]
    /\ openConns' = IF connected THEN openConns + 1 ELSE openConns
    /\ UNCHANGED <<tables, department, employee, project, employee_project, salary_history>>

\* the handler reaches cur.close(); conn.close(); return
Returns(op, a, b, result) ==
    /\ lastCall' = [op |-> op, a |-> a, b |-> b, outcome |-> "returned", result |-> result]
    /\ openConns' = (openConns + 1) - 1

\* ---- init_database
\* DROP TABLE IF EXISTS ... CASCADE, five statements
DropList == {"salary_history", "employee_project", "employee", "project", "department"}

\* cur.execute(schema_sql): CREATE TABLE fails on a table that exists
SchemaCreatable(tabs) == tabs \cap SchemaTables = {}

init_database ==
    IF ~CanConnect THEN Raises("init_database", 0, 0, FALSE)
    ELSE LET dropped == tables \ DropList IN
         IF ~SchemaCreatable(dropped)
         THEN \* the drop is committed, the creation raised
              /\ tables' = dropped
              /\ SetDb([t \in DOMAIN DbNow |-> IF t \in DropList THEN {} ELSE DbNow[t]])
              /\ lastCall' = [op |-> "init_database", a |-> 0, b |-> 0,
                              outcome |-> "raised", result |-> "none"]
              /\ openConns' = openConns + 1
         ELSE /\ tables' = dropped \cup SchemaTables
              /\ SetDb(EmptyDB)
              /\ Returns("init_database", 0, 0, "OK")

\* ---- seed_database
\* DELETE FROM ..., five statements, in this order
DeleteOrderMutParentsFirst ==
    <<"department", "project", "employee", "employee_project", "salary_history">>
DeleteOrder ==
    <<"salary_history", "employee_project", "employee", "project", "department">>

\* one DELETE FROM t: refused while a row of a child table references t
RECURSIVE DeleteAll(_, _)
DeleteAll(db, order) ==
    IF order = <<>> THEN [ok |-> TRUE, db |-> db]
    ELSE LET t == Head(order) IN
         IF \E c \in Children(t) : db[c] # {}
         THEN [ok |-> FALSE, db |-> db]
         ELSE DeleteAll([db EXCEPT ![t] = {}], Tail(order))

\* cur.execute(seed_sql): INSERT fails on a primary key that exists
SeedInsertable(db) ==
    /\ db.department \cap SeedDB.department = {}
    /\ {e.id : e \in db.employee} \cap {e.id : e \in SeedDB.employee} = {}
    /\ db.project \cap SeedDB.project = {}
    /\ db.employee_project \cap SeedDB.employee_project = {}

InsertSeed(db) == [t \in DOMAIN db |-> db[t] \cup SeedDB[t]]

seed_database ==
    IF ~CanConnect THEN Raises("seed_database", 0, 0, FALSE)
    ELSE IF ~(FiveTables \subseteq tables) THEN Raises("seed_database", 0, 0, TRUE)
    ELSE LET del == DeleteAll(DbNow, DeleteOrder) IN
         IF ~del.ok THEN Raises("seed_database", 0, 0, TRUE)
         ELSE IF ~SeedInsertable(del.db)
         THEN \* the deletion is committed, the insertion raised
              /\ SetDb(del.db)
              /\ lastCall' = [op |-> "seed_database", a |-> 0, b |-> 0,
                              outcome |-> "raised", result |-> "none"]
              /\ openConns' = openConns + 1
              /\ UNCHANGED tables
         ELSE /\ SetDb(InsertSeed(del.db))
              /\ Returns("seed_database", 0, 0, "OK")
              /\ UNCHANGED tables

\* ---- query endpoints
\* ORDER BY <column>, ascending
RECURSIVE SortBy(_, _)
SortBy(rows, col) ==
    IF rows = {} THEN <<>>
    ELSE LET m == CHOOSE r \in rows : \A q \in rows : r[col] <= q[col]
         IN <<m>> \o SortBy(rows \ {m}, col)

\* SELECT id, name, location FROM department
list_departments ==
    /\ UNCHANGED <<tables, department, employee, project, employee_project, salary_history>>
    /\ IF ~CanConnect THEN Raises("list_departments", 0, 0, FALSE)
       ELSE IF "department" \notin tables THEN Raises("list_departments", 0, 0, TRUE)
       ELSE Returns("list_departments", 0, 0, department)

\* offset=(page-1)*per_page
PageOffsetMutNoMinusOne(page, per_page) == page * per_page
PageOffset(page, per_page) == (page - 1) * per_page

\* FROM employee e JOIN department d ON e.department_id=d.id
EmployeeJoinDepartment ==
    {[id |-> e.id, salary |-> e.salary, department_name |-> e.department_id] :
        e \in {x \in employee : x.department_id \in department}}

\* LIMIT %s OFFSET %s
LimitOffset(rows, limit, offset) ==
    SubSeq(rows, offset + 1, Min(offset + limit, Len(rows)))

list_employees(page, per_page) ==
    /\ UNCHANGED <<tables, department, employee, project, employee_project, salary_history>>
    /\ IF ~CanConnect THEN Raises("list_employees", page, per_page, FALSE)
       ELSE IF ~({"employee", "department"} \subseteq tables)
       THEN Raises("list_employees", page, per_page, TRUE)
       ELSE Returns("list_employees", page, per_page,
                    LimitOffset(SortBy(EmployeeJoinDepartment, "id"),
                                per_page, PageOffset(page, per_page)))

\* SELECT ... FROM employee WHERE department_id=%s ORDER BY id;
\* return department_employees or {}
list_department_employees(dept_id) ==
    /\ UNCHANGED <<tables, department, employee, project, employee_project, salary_history>>
    /\ IF ~CanConnect THEN Raises("list_department_employees", dept_id, 0, FALSE)
       ELSE IF "employee" \notin tables
       THEN Raises("list_department_employees", dept_id, 0, TRUE)
       ELSE LET rows == SortBy({e \in employee : e.department_id = dept_id}, "id")
            IN Returns("list_department_employees", dept_id, 0,
                       IF rows = <<>> THEN [empty_dict |-> TRUE] ELSE rows)

\* FROM department d LEFT JOIN employee e ON e.department_id=d.id
\*                   LEFT JOIN employee_project ep ON ep.employee_id=e.id
\* WHERE d.id=%s : the joined rows (0 stands for NULL)
StatsJoin(dept_id) ==
    LET emps == {e \in employee : e.department_id = dept_id}
        projs(e) == {ep \in employee_project : ep[1] = e.id}
    IN
    IF dept_id \notin department THEN {}
    ELSE IF emps = {} THEN {[e_id |-> 0, e_salary |-> 0, project_id |-> 0]}
    ELSE UNION {IF projs(e) = {}
                THEN {[e_id |-> e.id, e_salary |-> e.salary, project_id |-> 0]}
                ELSE {[e_id |-> e.id, e_salary |-> e.salary, project_id |-> ep[2]] :
                        ep \in projs(e)} : e \in emps}

RECURSIVE SumSalary(_)
SumSalary(rows) ==
    IF rows = {} THEN 0
    ELSE LET r == CHOOSE x \in rows : TRUE IN r.e_salary + SumSalary(rows \ {r})

\* COUNT(e.id), AVG(e.salary), COUNT(DISTINCT ep.project_id) ... GROUP BY d.id, d.name;
\* cur.fetchone()
StatsRow(dept_id) ==
    LET rows == StatsJoin(dept_id)
        withEmp == {r \in rows : r.e_id # 0}
    IN IF rows = {} THEN [found |-> FALSE]
       ELSE [found |-> TRUE,
             department_name |-> dept_id,
             employee_count |-> Cardinality(withEmp),
             avg_salary |-> IF withEmp = {} THEN [is_null |-> TRUE]
                            ELSE [is_null |-> FALSE, sum |-> SumSalary(withEmp),
                                  count |-> Cardinality(withEmp)],
             project_count |-> Cardinality({r.project_id : r \in rows} \ {0})]

department_stats(dept_id) ==
    /\ UNCHANGED <<tables, department, employee, project, employee_project, salary_history>>
    /\ IF ~CanConnect THEN Raises("department_stats", dept_id, 0, FALSE)
       ELSE IF ~({"department", "employee", "employee_project"} \subseteq tables)
       THEN Raises("department_stats", dept_id, 0, TRUE)
       ELSE Returns("department_stats", dept_id, 0, StatsRow(dept_id))

\* SELECT ... FROM salary_history WHERE employee_id=%s ORDER BY change_date
salary_history_endpoint(emp_id) ==
    /\ UNCHANGED <<tables, department, employee, project, employee_project, salary_history>>
    /\ IF ~CanConnect THEN Raises("salary_history", emp_id, 0, FALSE)
       ELSE IF "salary_history" \notin tables THEN Raises("salary_history", emp_id, 0, TRUE)
       ELSE Returns("salary_history", emp_id, 0,
                    SortBy({h \in salary_history : h.employee_id = emp_id}, "change_date"))

\* ----------------------------------------------------------- s5: the system
\* database contents the service may find: the five tables with rows that
\* satisfy the foreign keys, or only some of the tables and no rows
InitDatabases ==
    {db \in [department : {DeptIds},
             employee : SUBSET {EmpRow(i, d) : i \in EmpIds, d \in DeptIds},
             project : {ProjIds},
             employee_project : SUBSET (EmpIds \X ProjIds),
             salary_history : SUBSET {[employee_id |-> i, change_date |-> 1] : i \in EmpIds}] :
        /\ \A e1, e2 \in db.employee : e1.id = e2.id => e1 = e2
        /\ \A ep \in db.employee_project : \E e \in db.employee : e.id = ep[1]
        /\ \A h \in db.salary_history : \E e \in db.employee : e.id = h.employee_id}

InitS4Idle ==
    /\ bucket = {}
    /\ cwdFiles = {}
    /\ rawDirFiles = {}
    /\ dlPc = "idle"
    /\ file_limit = 0
    /\ downloaded = 0
    /\ seconds = 0
    /\ attempts = <<>>
    /\ uploads = <<>>
    /\ prepPc = "idle"
    /\ prepResult = "none"
    /\ listing = [has_contents |-> FALSE, keys |-> <<>>]
    /\ bucketAtList = {}
    /\ copies = <<>>

InitS5 ==
    /\ InitS4Idle
    /\ openConns = 0
    /\ lastCall = [op |-> "none"]
    /\ \/ /\ tables = FiveTables
          /\ \E db \in InitDatabases :
                /\ department = db.department
                /\ employee = db.employee
                /\ project = db.project
                /\ employee_project = db.employee_project
                /\ salary_history = db.salary_history
       \/ /\ tables \in (SUBSET FiveTables) \ {FiveTables}
          /\ department = {}
          /\ employee = {}
          /\ project = {}
          /\ employee_project = {}
          /\ salary_history = {}

S5Init == init_database /\ UNCHANGED s4vars
S5Seed == seed_database /\ UNCHANGED s4vars
S5ListDepartments == list_departments /\ UNCHANGED s4vars
S5ListEmployees ==
    (\E page \in 1..MaxPage, per_page \in 1..MaxPerPage : list_employees(page, per_page))
        /\ UNCHANGED s4vars
S5ListDepartmentEmployees ==
    (\E dept_id \in 1..3 : list_department_employees(dept_id)) /\ UNCHANGED s4vars
S5DepartmentStats == (\E dept_id \in 1..4 : department_stats(dept_id)) /\ UNCHANGED s4vars
S5SalaryHistory == (\E emp_id \in 1..3 : salary_history_endpoint(emp_id)) /\ UNCHANGED s4vars

NextS5 ==
    \/ S5Init
    \/ S5Seed
    \/ S5ListDepartments
    \/ S5ListEmployees
    \/ S5ListDepartmentEmployees
    \/ S5DepartmentStats
    \/ S5SalaryHistory

SpecS5 == InitS5 /\ [][NextS5]_vars

\* ------------------------------------------------------------ s4: claims
OkAttempts == SelectSeq(attempts, LAMBDA a : a.outcome = "ok")
NoneRaised == \A i \in 1..Len(attempts) : attempts[i].outcome \notin Raised

\* C1: when download_data(n), n > 0, returns after a run in which every fetch
\* answered 200 or non-200 and nothing raised, exactly n upload calls
\* completed, and their keys are raw/day=20231101/ + filename of the n lowest
\* offsets 0, 5, 10, ... answered with 200, in ascending order; the offsets
\* answered non-200 are fetched, skipped and not counted.
C1_DownloadUploadsLowest200 ==
    (dlPc = "done" /\ file_limit > 0 /\ NoneRaised) =>
        /\ Len(uploads) = file_limit
        /\ downloaded = file_limit
        /\ \A i \in 1..Len(attempts) : attempts[i].offset = 5 * (i - 1)
        /\ attempts[Len(attempts)].outcome = "ok"
        /\ Len(OkAttempts) = file_limit
        /\ \A i \in 1..Len(uploads) :
              uploads[i] = <<"raw", "/", "day=20231101", "/">>
                              \o Filename(OkAttempts[i].offset)
        /\ \A i \in 1..Len(uploads) : uploads[i] \in bucket

C1_Witness ==
    /\ dlPc = "done"
    /\ file_limit = 2
    /\ NoneRaised
    /\ Len(attempts) = 3
    /\ attempts[2].outcome = "non200"

\* C2: the offset counter starts at 0 and grows by exactly 5 per attempt
\* whatever the outcome: the i-th attempt fetches offset 5*(i-1), an attempt
\* that raised is not counted, and the call returns only with file_limit
\* counted successes, however many attempts raised.
C2_OffsetAdvancesEveryAttempt ==
    /\ \A i \in 1..Len(attempts) : attempts[i].offset = 5 * (i - 1)
    /\ dlPc # "idle" => seconds = 5 * Len(attempts)
    /\ downloaded = Len(OkAttempts)
    /\ dlPc = "done" => Len(OkAttempts) >= file_limit

C2_Witness ==
    /\ dlPc = "done"
    /\ Len(attempts) = 3
    /\ attempts[1].outcome = "fetch_exc"
    /\ attempts[2].outcome = "upload_exc"
    /\ attempts[3].outcome = "ok"
    /\ seconds = 15

\* C3 as stated: the counter never exceeds file_limit and the call returns
\* with downloaded = file_limit.
C3_Original ==
    dlPc # "idle" =>
        /\ downloaded <= file_limit
        /\ dlPc = "done" => downloaded = file_limit

\* C3 amended: for file_limit >= 0 the counter never exceeds file_limit, no
\* attempt is made once downloaded = file_limit, the call returns from that
\* state with downloaded = file_limit, and a call with file_limit > 0 that
\* returned has counted a successful attempt; for file_limit < 0 the call
\* returns at once with downloaded = 0 and no attempt. When successful
\* attempts keep happening the call returns (or the model's attempt bound is
\* reached).
C3_ReturnsOnlyAtLimit ==
    /\ [](dlPc # "idle" /\ file_limit >= 0 => downloaded <= file_limit)
    /\ [](dlPc = "done" /\ file_limit >= 0 => downloaded = file_limit)
    /\ [](dlPc = "done" /\ file_limit > 0 => Len(OkAttempts) = file_limit)
    /\ [](dlPc # "idle" /\ file_limit < 0 => downloaded = 0 /\ attempts = <<>>)
    /\ [][dlPc = "loop" /\ downloaded >= file_limit => attempts' = attempts]_vars
    /\ (dlPc = "loop" /\ downloaded >= file_limit) ~> (dlPc = "done")
    /\ (dlPc = "loop") ~> (dlPc = "done" \/ Len(attempts) >= MaxAttempts)

C3_Witness ==
    /\ dlPc = "done"
    /\ file_limit = 2
    /\ downloaded = 2
    /\ Len(attempts) = 3

C5_PrepareCopiesEveryObject ==
    (prepPc = "returned" /\ prepResult = "OK") =>
        \A k \in bucketAtList :
            StartsWith(k, S3Prefix) => \E i \in 1..Len(copies) : copies[i].key = k

\* C9: at every loop boundary of download_data and when it has returned, no
\* file it wrote remains in the working directory.
C9_NoTemporaryFileRemains == cwdFiles = {}

\* ------------------------------------------------------------ s5: claims
JoinedIds == {e.id : e \in {x \in employee : x.department_id \in department}}
Rank(id) == Cardinality({j \in JoinedIds : j < id})

\* C6: list_employees(page, per_page) returns the rows at positions
\* [(page-1)*per_page, page*per_page) of the employees joined to their
\* department in ascending id order: at most per_page rows, ascending, and an
\* empty sequence for a page beyond the last.
C6_ListEmployeesPage ==
    (lastCall.op = "list_employees" /\ lastCall.outcome = "returned") =>
        LET res == lastCall.result
            lo == (lastCall.a - 1) * lastCall.b
            hi == lastCall.a * lastCall.b
        IN /\ Len(res) <= lastCall.b
           /\ \A i \in 1..Len(res) : res[i].id \in JoinedIds /\ Rank(res[i].id) = lo + i - 1
           /\ {res[i].id : i \in 1..Len(res)} =
                 {id \in JoinedIds : lo <= Rank(id) /\ Rank(id) < hi}
           /\ \A i \in 1..Len(res) : \A j \in 1..Len(res) : i < j => res[i].id < res[j].id
           /\ lo >= Cardinality(JoinedIds) => res = <<>>
           /\ \A i \in 1..Len(res) : \E e \in employee :
                 e.id = res[i].id /\ e.department_id = res[i].department_name

C6_Witness ==
    /\ lastCall.op = "list_employees"
    /\ lastCall.outcome = "returned"
    /\ lastCall.a = 2
    /\ lastCall.b = 2
    /\ Cardinality(employee) = 5
    /\ Len(lastCall.result) = 2
    /\ lastCall.result[1].id = 3

\* C7: department_stats of an existing department returns employee_count =
\* the number of employees of the department and project_count = the number
\* of distinct projects they are assigned to; with no employee it returns
\* employee_count = 0 and a null avg_salary.
C7_DepartmentStatsCounts ==
    (lastCall.op = "department_stats" /\ lastCall.outcome = "returned"
        /\ lastCall.a \in department) =>
        LET emps == {e \in employee : e.department_id = lastCall.a}
            res == lastCall.result
        IN /\ res.found
           /\ res.employee_count = Cardinality(emps)
           /\ res.project_count =
                Cardinality({ep[2] : ep \in {x \in employee_project :
                                \E e \in emps : e.id = x[1]}})
           /\ emps = {} => res.employee_count = 0 /\ res.avg_salary.is_null

\* C8: a seed_database call that finds the five tables and a free connection
\* deletes children before parents, so no foreign key refuses a deletion, and
\* returns leaving exactly the fixed rows, whatever the rows before and
\* however often it is repeated; an init_database call with a free connection
\* returns leaving exactly the schema's tables, empty, whatever tables existed.
C8_SeedAndInitIdempotent ==
    /\ []((lastCall.op = "seed_database" /\ lastCall.outcome = "returned")
            => (DbNow = SeedDB /\ tables = FiveTables))
    /\ []((lastCall.op = "init_database" /\ lastCall.outcome = "returned")
            => (DbNow = EmptyDB /\ tables = FiveTables))
    /\ [][(lastCall'.op = "seed_database" /\ FiveTables \subseteq tables /\ CanConnect)
            => (lastCall'.outcome = "returned" /\ DbNow' = SeedDB)]_vars
    /\ [][(lastCall'.op = "init_database" /\ CanConnect)
            => (lastCall'.outcome = "returned" /\ tables' = FiveTables
                /\ DbNow' = EmptyDB)]_vars

C8_Witness ==
    /\ lastCall.op = "seed_database"
    /\ lastCall.outcome = "returned"
    /\ DbNow = SeedDB
    /\ openConns = 0

\* C10: no connection opened by an s5 handler is open once the handler's
\* call has ended, on the paths where a SQL statement raised included.
C10_NoConnectionLeftOpen == openConns = 0

====
